---- MODULE Spec2Model ----
(***************************************************************************)
(* Model of PAN_OS_Upgrade_Assurance.py: the translation of command        *)
(* arguments into the directive lists handed to CheckFirewall              *)
(* (readiness checks) and SnapshotCompare (snapshot comparisons).          *)
(*                                                                         *)
(* Python values are tagged records: None, int and str.  A str is the      *)
(* sequence of its characters, so that str.split, str.isdigit and int()    *)
(* are computed and not assumed.  Check and snapshot identifiers are       *)
(* TLA+ strings.  A directive is either Bare(id) (a Python str in the      *)
(* list) or Param(id, opts) (a single-key dict {id: opts}).                *)
(***************************************************************************)
EXTENDS Integers, Sequences, FiniteSets, TLC

VARIABLES pc, op, cmd_check_list, cmd_args, rrc_called, check_list, kwargs,
          ha_enabled, check_config, evaluator_called, error,
          snapshot_list, session_stats_threshold, snapshot_comparisons,
          compare_called, cmd_threshold

vars == <<pc, op, cmd_check_list, cmd_args, rrc_called, check_list, kwargs,
          ha_enabled, check_config, evaluator_called, error,
          snapshot_list, session_stats_threshold, snapshot_comparisons,
          compare_called, cmd_threshold>>

(***************************************************************************)
(* Bounds of the model.                                                    *)
(***************************************************************************)
\* longest check list / snapshot list an invocation is given
MaxLen == 2
\* largest number of per-check parameters supplied in one invocation
MaxParams == 2

(***************************************************************************)
(* Python values.                                                          *)
(***************************************************************************)
PyNone == [t |-> "None"]
PyStr(chars) == [t |-> "str", s |-> chars]
PyInt(k) == [t |-> "int", n |-> k]
PyList(l) == [t |-> "list", l |-> l]

\* Python truth value of an object (used by `if x:` and `not x`)
Truthy(v) ==
    CASE v.t = "None" -> FALSE
      [] v.t = "str"  -> Len(v.s) > 0
      [] v.t = "int"  -> v.n # 0
      [] v.t = "list" -> Len(v.l) > 0

\* x in l
In(x, l) == \E i \in 1..Len(l) : l[i] = x

\* l.remove(x) for a list that contains x: the FIRST occurrence goes
Remove(l, x) ==
    LET i == CHOOSE j \in 1..Len(l) : l[j] = x /\ \A k \in 1..(j-1) : l[k] # x
    IN  [k \in 1..(Len(l)-1) |-> IF k < i THEN l[k] ELSE l[k+1]]

\* s.split(sep) for a one-character separator
RECURSIVE Split(_, _)
Split(s, sep) ==
    IF \A i \in 1..Len(s) : s[i] # sep
    THEN <<s>>
    ELSE LET i == CHOOSE j \in 1..Len(s) :
                      s[j] = sep /\ \A k \in 1..(j-1) : s[k] # sep
         IN  <<SubSeq(s, 1, i-1)>> \o Split(SubSeq(s, i+1, Len(s)), sep)

Digits == <<"0","1","2","3","4","5","6","7","8","9">>

\* s.isdigit()
IsDigit(s) == Len(s) > 0 /\ \A i \in 1..Len(s) : In(s[i], Digits)

\* int(s) for a string of decimal digits
RECURSIVE ToInt(_)
ToInt(s) ==
    IF Len(s) = 0 THEN 0
    ELSE 10 * ToInt(SubSeq(s, 1, Len(s)-1))
         + ((CHOOSE d \in 1..10 : Digits[d] = s[Len(s)]) - 1)

Bare(id) == [kind |-> "bare", id |-> id]
Param(id, opts) == [kind |-> "param", id |-> id, opts |-> opts]

(***************************************************************************)
(* Helpers of CommonServerPython used by the command handlers.             *)
(***************************************************************************)
\* is_ip_valid(s): four dot-separated decimal fields, each in 0..255
is_ip_valid(s) ==
    LET a == Split(s, ".")
    IN  /\ Len(a) = 4
        /\ \A i \in 1..Len(a) : IsDigit(a[i]) /\ ToInt(a[i]) <= 255

\* arg_to_number(arg, required=False): None for None and '', the integer for
\* a decimal literal (optionally signed, through int(float(arg))), ValueError
\* for any other string, the int itself for an int
arg_to_number(arg) ==
    CASE arg.t = "None" -> [err |-> FALSE, val |-> PyNone]
      [] arg.t = "int"  -> [err |-> FALSE, val |-> arg]
      [] arg.t = "str"  ->
            IF Len(arg.s) = 0 THEN [err |-> FALSE, val |-> PyNone]
            ELSE IF IsDigit(arg.s)
                 THEN [err |-> FALSE, val |-> PyInt(ToInt(arg.s))]
            ELSE IF arg.s[1] \in {"-", "+"} /\ IsDigit(Tail(arg.s))
                 THEN [err |-> FALSE,
                       val |-> PyInt(IF arg.s[1] = "-" THEN 0 - ToInt(Tail(arg.s))
                                                      ELSE ToInt(Tail(arg.s)))]
            ELSE [err |-> TRUE, val |-> PyNone]

(***************************************************************************)
(* parse_session                                                           *)
(***************************************************************************)
\* variant: only too few fields are an error (as with split("/", 2))
parse_session_raises_TooFew(session_str) == Len(Split(session_str, "/")) < 3

\* the tuple unpacking `source, destination, port = session_str.split("/")`
\* raises ValueError unless split yields exactly three fields
parse_session_raises(session_str) == Len(Split(session_str, "/")) # 3

parse_session(session_str) ==
    LET f == Split(session_str, "/")
    IN  [source |-> f[1], destination |-> f[2], dest_port |-> f[3]]

(***************************************************************************)
(* run_readiness_checks.  The working state of the function is the pair    *)
(* check_list (bare identifiers) and custom_checks (parameterized          *)
(* directives), plus the exception raised, if any.                         *)
(***************************************************************************)
\* variant: 'ha' is in the defaults whatever the firewall says
DefaultCheckList_AlwaysHA(enabled) ==
    <<"panorama", "ntp_sync", "candidate_config", "active_support", "ha">>

\* the defaults, with 'ha' only if firewall.get_ha_configuration() says so
DefaultCheckList(enabled) ==
    LET base == <<"panorama", "ntp_sync", "candidate_config", "active_support">>
    IN  IF enabled = "yes" THEN Append(base, "ha") ELSE base

\* variant: the bare name is removed whether or not min_content_version is
\* given, so that the check is dropped without it
ContentVersionStep_DropWhenAbsent(st, min_content_version) ==
    IF In("content_version", st.check_list)
    THEN [st EXCEPT
            !.custom_checks =
                IF Truthy(min_content_version)
                THEN Append(@, Param("content_version",
                                     [version |-> min_content_version]))
                ELSE @,
            !.check_list = Remove(@, "content_version")]
    ELSE st

\* 'content_version': promoted (and the bare name removed) only if
\* min_content_version is given; else the bare name stays in the list
ContentVersionStep(st, min_content_version) ==
    IF In("content_version", st.check_list) /\ Truthy(min_content_version)
    THEN [st EXCEPT
            !.custom_checks = Append(@, Param("content_version",
                                        [version |-> min_content_version])),
            !.check_list = Remove(@, "content_version")]
    ELSE st

\* 'free_disk_space': parameterized if candidate_version is given, else the
\* bare name is appended; the list itself is not inspected
FreeDiskSpaceStep(st, candidate_version) ==
    IF Truthy(candidate_version)
    THEN [st EXCEPT
            !.custom_checks = Append(@, Param("free_disk_space",
                                        [image_version |-> candidate_version]))]
    ELSE [st EXCEPT !.check_list = Append(@, "free_disk_space")]

PlanesClockSyncStep(st, dp_mp_clock_diff) ==
    IF In("planes_clock_sync", st.check_list)
    THEN [st EXCEPT
            !.custom_checks =
                IF dp_mp_clock_diff.t = "int" /\ dp_mp_clock_diff.n >= 0
                THEN Append(@, Param("planes_clock_sync",
                                     [diff_threshold |-> dp_mp_clock_diff]))
                ELSE @,
            !.check_list = Remove(@, "planes_clock_sync")]
    ELSE st

IpSecTunnelStatusStep(st, ipsec_tunnel_status) ==
    IF In("ip_sec_tunnel_status", st.check_list)
    THEN [st EXCEPT
            !.custom_checks =
                IF Truthy(ipsec_tunnel_status)
                THEN Append(@, Param("ip_sec_tunnel_status",
                                     [tunnel_name |-> ipsec_tunnel_status]))
                ELSE @,
            !.check_list = Remove(@, "ip_sec_tunnel_status")]
    ELSE st

\* 'session_exist': the parameter is parsed only inside this branch; a
\* parse failure is re-raised as ValueError and ends the function
SessionExistStep(st, check_session_exists) ==
    IF In("session_exist", st.check_list)
    THEN IF Truthy(check_session_exists)
         THEN IF parse_session_raises(check_session_exists.s)
              THEN [st EXCEPT !.error = "ValueError"]
              ELSE [st EXCEPT
                      !.custom_checks = Append(@, Param("session_exist",
                                            parse_session(check_session_exists.s))),
                      !.check_list = Remove(@, "session_exist")]
         ELSE [st EXCEPT !.check_list = Remove(@, "session_exist")]
    ELSE st

ArpEntryExistsStep(st, arp_entry_exists) ==
    IF In("arp_entry_exists", st.check_list)
    THEN [st EXCEPT
            !.custom_checks =
                IF Truthy(arp_entry_exists)
                THEN Append(@, Param("arp_entry_exist", [ip |-> arp_entry_exists]))
                ELSE @,
            !.check_list = Remove(@, "arp_entry_exists")]
    ELSE st

\* check_config = check_list + custom_checks
CheckConfig(st) ==
    [i \in 1..Len(st.check_list) |-> Bare(st.check_list[i])] \o st.custom_checks

\* the whole function: the result is the exception raised, or the directive
\* list handed to CheckFirewall.run_readiness_checks
run_readiness_checks(cl, enabled, kw) ==
    LET s0 == [check_list |-> IF Truthy(cl) THEN cl.l ELSE DefaultCheckList(enabled),
               custom_checks |-> <<>>,
               error |-> "none"]
        s1 == ContentVersionStep(s0, kw.min_content_version)
        s2 == FreeDiskSpaceStep(s1, kw.candidate_version)
        s3 == PlanesClockSyncStep(s2, kw.dp_mp_clock_diff)
        s4 == IpSecTunnelStatusStep(s3, kw.ipsec_tunnel_status)
        s5 == SessionExistStep(s4, kw.check_session_exists)
        s6 == ArpEntryExistsStep(s5, kw.arp_entry_exists)
    IN  IF s5.error # "none"
        THEN [error |-> s5.error, check_config |-> <<>>]
        ELSE [error |-> "none", check_config |-> CheckConfig(s6)]

(***************************************************************************)
(* command_run_readiness_checks, up to the call of run_readiness_checks.   *)
(***************************************************************************)
\* `if a in check_list: check_list.remove(a); check_list.append(b)`
Rename(l, a, b) == IF In(a, l) THEN Append(Remove(l, a), b) ELSE l

RenamedCheckList(l) ==
    Rename(Rename(Rename(l, "dp_mp_clock_diff", "planes_clock_sync"),
                  "ipsec_tunnel", "ip_sec_tunnel_status"),
           "arp", "arp_entry_exists")

\* variant: the test of the address is inverted
ArpEntryInvalid_Inverted(arp_entry) ==
    Truthy(arp_entry) /\ is_ip_valid(arp_entry.s)

\* the guard of the `raise ValueError` for the ARP address
ArpEntryInvalid(arp_entry) ==
    Truthy(arp_entry) /\ ~is_ip_valid(arp_entry.s)

(***************************************************************************)
(* compare_snapshots                                                       *)
(***************************************************************************)
DefaultSnapshotList ==
    <<"nics", "routes", "license", "arp_table", "content_version",
      "session_stats", "ip_sec_tunnels">>

\* variant: zero is taken as a threshold (>= 0 for > 0)
SessionStatsThreshold_ZeroAllowed(threshold) ==
    IF threshold.t = "int" /\ threshold.n >= 0 THEN threshold.n ELSE 10

\* the value used for both 'num-max' and 'num-tcp'
SessionStatsThreshold(threshold) ==
    IF threshold.t = "int" /\ threshold.n > 0 THEN threshold.n ELSE 10

SessionStatsDirective(threshold) ==
    Param("session_stats",
          [thresholds |-> << ("num-max" :> SessionStatsThreshold(threshold)),
                             ("num-tcp" :> SessionStatsThreshold(threshold)) >>])

\* the directive appended by each `if '<name>' in snapshot_list:` block, in
\* the order of the blocks
SnapshotDirectives(threshold) ==
    << Param("nics", [count_change_threshold |-> 10]),
       Param("routes", [properties |-> <<"!flags", "!age">>,
                        count_change_threshold |-> 10]),
       Param("license", [properties |-> <<"!serial", "!issued", "!authcode">>]),
       Param("arp_table", [properties |-> <<"!ttl">>,
                           count_change_threshold |-> 10]),
       Bare("content_version"),
       SessionStatsDirective(threshold),
       Param("ip_sec_tunnels", [properties |-> <<"state">>]),
       Param("bgp_peers", [properties |-> <<"status">>]) >>

\* variant: the caller's list is walked, a directive per entry it names
RECURSIVE AppendBlocks_CallerOrder(_, _, _, _)
AppendBlocks_CallerOrder(blocks, i, l, acc) ==
    IF i > Len(l) THEN acc
    ELSE AppendBlocks_CallerOrder(blocks, i + 1, l,
            IF \E k \in 1..Len(blocks) : blocks[k].id = l[i]
            THEN Append(acc, blocks[CHOOSE k \in 1..Len(blocks) : blocks[k].id = l[i]])
            ELSE acc)

\* the blocks run one after the other, each appending if its name is a member
RECURSIVE AppendBlocks(_, _, _, _)
AppendBlocks(blocks, i, l, acc) ==
    IF i > Len(blocks) THEN acc
    ELSE AppendBlocks(blocks, i + 1, l,
                      IF In(blocks[i].id, l) THEN Append(acc, blocks[i]) ELSE acc)

compare_snapshots(sl, threshold) ==
    LET l == IF Truthy(sl) THEN sl.l ELSE DefaultSnapshotList
    IN  AppendBlocks(SnapshotDirectives(threshold), 1, l, <<>>)

(***************************************************************************)
(* Inputs.                                                                 *)
(***************************************************************************)
\* check identifiers a caller may put in check_list
CheckNames ==
    {"panorama", "content_version", "free_disk_space", "dp_mp_clock_diff",
     "planes_clock_sync", "ipsec_tunnel", "ip_sec_tunnel_status",
     "session_exist", "arp", "arp_entry_exists"}

\* snapshot identifiers a caller may put in the list; "hostname" is not one
\* of the identifiers compare_snapshots knows
SnapshotNames ==
    {"nics", "routes", "license", "arp_table", "content_version",
     "session_stats", "ip_sec_tunnels", "bgp_peers", "hostname"}

SeqsUpTo(S, n) == UNION {[1..k -> S] : k \in 0..n}

\* firewall.get_ha_configuration().get('enabled')
HAValues == {"yes", "no"}

VersionValues == {PyNone, PyStr(<<>>), PyStr(<<"8","4","2","1","-","7","3","2","1">>)}
CandidateValues == {PyNone, PyStr(<<>>), PyStr(<<"1","0",".","2",".","3">>)}
ClockDiffValues == {PyNone, PyInt(0 - 1), PyInt(0), PyInt(5), PyStr(<<"5">>)}
ClockDiffArgs == {PyNone, PyStr(<<>>), PyStr(<<"5">>), PyStr(<<"0">>),
                  PyStr(<<"-","1">>), PyStr(<<"a","b","c">>)}
TunnelValues == {PyNone, PyStr(<<>>), PyStr(<<"t","u","n","1">>)}
SessionValues ==
    {PyNone, PyStr(<<>>),
     PyStr(<<"1","0",".","1","0",".","1","0",".","1","0","/","8",".","8",".","8",".","8","/","4","4","3">>),
     PyStr(<<"1","0",".","1","0",".","1","0",".","1","0","/","8",".","8",".","8",".","8">>),
     PyStr(<<"1","/","2","/","3","/","4">>),
     PyStr(<<"/","/">>)}
ArpValues ==
    {PyNone, PyStr(<<>>),
     PyStr(<<"1","0",".","0",".","0",".","6">>),
     PyStr(<<"9","9","9",".","1",".","1",".","1">>),
     PyStr(<<"1","0",".","0",".","0">>),
     PyStr(<<"1","0",".","0",".","0",".","x">>)}
ThresholdValues == {PyNone, PyInt(0 - 3), PyInt(0), PyInt(1), PyInt(25), PyStr(<<"2","5">>)}
\* args.get('session_stats_threshold') of the comparison command
ThresholdArgs == {PyNone, PyStr(<<>>), PyStr(<<"2","5">>), PyStr(<<"0">>),
                  PyStr(<<"-","3">>), PyStr(<<"a","b","c">>)}

ParamNames == {"min_content_version", "candidate_version", "dp_mp_clock_diff",
               "ipsec_tunnel_status", "check_session_exists", "arp_entry_exists"}

NoArgs == [p \in ParamNames |-> PyNone]

Supplied(kw) == {p \in ParamNames : kw[p] # PyNone}

\* keyword arguments of a direct call of run_readiness_checks
KwargsSets ==
    {kw \in [min_content_version : VersionValues,
             candidate_version : CandidateValues,
             dp_mp_clock_diff : ClockDiffValues,
             ipsec_tunnel_status : TunnelValues,
             check_session_exists : SessionValues,
             arp_entry_exists : ArpValues] :
        Cardinality(Supplied(kw)) <= MaxParams}

\* demisto.args() of the readiness command (every value a string)
ArgsSets ==
    {kw \in [min_content_version : VersionValues,
             candidate_version : CandidateValues,
             dp_mp_clock_diff : ClockDiffArgs,
             ipsec_tunnel_status : TunnelValues,
             check_session_exists : SessionValues,
             arp_entry_exists : ArpValues] :
        Cardinality(Supplied(kw)) <= MaxParams}

(***************************************************************************)
(* The state machine: one command or function invocation at a time.        *)
(***************************************************************************)
Init ==
    /\ pc = "idle"
    /\ op = "none"
    /\ cmd_check_list = <<>>
    /\ cmd_args = NoArgs
    /\ rrc_called = FALSE
    /\ check_list = PyNone
    /\ kwargs = NoArgs
    /\ ha_enabled = "not_read"
    /\ check_config = <<>>
    /\ evaluator_called = FALSE
    /\ error = "none"
    /\ snapshot_list = PyNone
    /\ session_stats_threshold = PyNone
    /\ snapshot_comparisons = <<>>
    /\ compare_called = FALSE
    /\ cmd_threshold = PyNone

\* the effect of one call run_readiness_checks(firewall, cl, **kw) on the
\* variables of the function
CallRunReadinessChecks(cl, kw) ==
    /\ rrc_called' = TRUE
    /\ check_list' = cl
    /\ kwargs' = kw
    /\ \E enabled \in (IF Truthy(cl) THEN {"not_read"} ELSE HAValues) :
          LET r == run_readiness_checks(cl, enabled, kw)
          IN  /\ ha_enabled' = enabled
              /\ error' = r.error
              /\ check_config' = r.check_config
              /\ evaluator_called' = (r.error = "none")

\* a direct call of run_readiness_checks
RunReadinessChecks ==
    /\ pc = "idle"
    /\ \E cl \in {PyNone} \cup {PyList(l) : l \in SeqsUpTo(CheckNames, MaxLen)},
          kw \in KwargsSets :
          CallRunReadinessChecks(cl, kw)
    /\ pc' = "done"
    /\ op' = "run_readiness_checks"
    /\ UNCHANGED <<cmd_check_list, cmd_args, snapshot_list,
                   session_stats_threshold, snapshot_comparisons, compare_called,
                   cmd_threshold>>

\* the command handler
CommandRunReadinessChecks ==
    /\ pc = "idle"
    /\ \E l \in SeqsUpTo(CheckNames, MaxLen), args \in ArgsSets :
          LET dp == arg_to_number(args.dp_mp_clock_diff)
          IN  /\ cmd_check_list' = l
              /\ cmd_args' = args
              /\ IF dp.err \/ ArpEntryInvalid(args.arp_entry_exists)
                 THEN /\ error' = "ValueError"
                      /\ UNCHANGED <<rrc_called, check_list, kwargs, ha_enabled,
                                     check_config, evaluator_called>>
                 ELSE CallRunReadinessChecks(
                          PyList(RenamedCheckList(l)),
                          [args EXCEPT !.dp_mp_clock_diff = dp.val])
    /\ pc' = "done"
    /\ op' = "command_run_readiness_checks"
    /\ UNCHANGED <<snapshot_list, session_stats_threshold, snapshot_comparisons,
                   compare_called, cmd_threshold>>

\* a call of compare_snapshots
CompareSnapshots ==
    /\ pc = "idle"
    /\ \E sl \in {PyNone} \cup {PyList(l) : l \in SeqsUpTo(SnapshotNames, MaxLen)},
          th \in ThresholdValues :
          /\ snapshot_list' = sl
          /\ session_stats_threshold' = th
          /\ snapshot_comparisons' = compare_snapshots(sl, th)
    /\ compare_called' = TRUE
    /\ pc' = "done"
    /\ op' = "compare_snapshots"
    /\ UNCHANGED <<cmd_check_list, cmd_args, rrc_called, check_list, kwargs,
                   ha_enabled, check_config, evaluator_called, error,
                   cmd_threshold>>

\* the comparison command handler: both snapshot files are read, the list
\* comes from argToList, the threshold from arg_to_number, which raises
\* ValueError on a string that is no number before compare_snapshots is
\* called
CommandCompareSnapshots ==
    /\ pc = "idle"
    /\ \E l \in SeqsUpTo(SnapshotNames, MaxLen), arg \in ThresholdArgs :
          LET th == arg_to_number(arg)
          IN  /\ cmd_check_list' = l
              /\ cmd_threshold' = arg
              /\ IF th.err
                 THEN /\ error' = "ValueError"
                      /\ UNCHANGED <<snapshot_list, session_stats_threshold,
                                     snapshot_comparisons, compare_called>>
                 ELSE /\ error' = "none"
                      /\ snapshot_list' = PyList(l)
                      /\ session_stats_threshold' = th.val
                      /\ snapshot_comparisons' = compare_snapshots(PyList(l), th.val)
                      /\ compare_called' = TRUE
    /\ pc' = "done"
    /\ op' = "command_compare_snapshots"
    /\ UNCHANGED <<cmd_args, rrc_called, check_list, kwargs, ha_enabled,
                   check_config, evaluator_called>>

\* the invocation is over; nothing is kept for the next one
Return ==
    /\ pc = "done"
    /\ pc' = "idle"
    /\ op' = "none"
    /\ cmd_check_list' = <<>>
    /\ cmd_args' = NoArgs
    /\ rrc_called' = FALSE
    /\ check_list' = PyNone
    /\ kwargs' = NoArgs
    /\ ha_enabled' = "not_read"
    /\ check_config' = <<>>
    /\ evaluator_called' = FALSE
    /\ error' = "none"
    /\ snapshot_list' = PyNone
    /\ session_stats_threshold' = PyNone
    /\ snapshot_comparisons' = <<>>
    /\ compare_called' = FALSE
    /\ cmd_threshold' = PyNone

Next ==
    \/ RunReadinessChecks
    \/ CommandRunReadinessChecks
    \/ CompareSnapshots
    \/ CommandCompareSnapshots
    \/ Return

Spec == Init /\ [][Next]_vars

(***************************************************************************)
(* Vocabulary of the properties.                                           *)
(***************************************************************************)
ReadinessReturned == pc = "done" /\ rrc_called /\ error = "none"

\* the check list run_readiness_checks was given names x
InCheckList(x) == check_list.t = "list" /\ In(x, check_list.l)

Occurrences(l, x) == Cardinality({i \in 1..Len(l) : l[i] = x})

WithId(l, id) == {i \in 1..Len(l) : l[i].id = id}

NoDuplicates(l) == \A i, j \in 1..Len(l) : l[i] = l[j] => i = j

\* a string parameter counts as supplied when it is given and not empty
IsSupplied(v) == v # PyNone /\ v # PyStr(<<>>)

\* C1: run_readiness_checks always submits exactly one free_disk_space
\* directive: the parameterized one (and no bare one) when candidate_version
\* is supplied, the bare identifier exactly once when it is not.
C1_ExactlyOneFreeDiskSpace ==
    ReadinessReturned =>
        /\ Cardinality(WithId(check_config, "free_disk_space")) = 1
        /\ IF IsSupplied(kwargs.candidate_version)
           THEN In(Param("free_disk_space",
                         [image_version |-> kwargs.candidate_version]), check_config)
           ELSE In(Bare("free_disk_space"), check_config)

\* C2 (as stated): with content_version in the check list the output never
\* holds the bare identifier content_version; it holds
\* {content_version: {version: v}} iff min_content_version = v is supplied,
\* and no content_version directive at all when it is absent.
C2_ContentVersionDroppedWhenAbsent ==
    (ReadinessReturned /\ InCheckList("content_version")) =>
        /\ ~In(Bare("content_version"), check_config)
        /\ In(Param("content_version", [version |-> kwargs.min_content_version]),
              check_config) <=> IsSupplied(kwargs.min_content_version)
        /\ ~IsSupplied(kwargs.min_content_version)
              => WithId(check_config, "content_version") = {}

\* C2 (amended): with content_version in the check list, the output holds
\* {content_version: {version: v}} (once) iff min_content_version = v is
\* supplied, and then one occurrence of the bare identifier is taken out of
\* the list; when min_content_version is absent every bare content_version
\* stays and there is no parameterized content_version directive.
C2_ContentVersionKeptWhenAbsent ==
    (ReadinessReturned /\ InCheckList("content_version")) =>
        LET promoted == Param("content_version",
                              [version |-> kwargs.min_content_version])
            given == Occurrences(check_list.l, "content_version")
        IN  IF IsSupplied(kwargs.min_content_version)
            THEN /\ Occurrences(check_config, promoted) = 1
                 /\ Occurrences(check_config, Bare("content_version")) = given - 1
                 /\ Cardinality(WithId(check_config, "content_version")) = given
            ELSE /\ Occurrences(check_config, Bare("content_version")) = given
                 /\ Cardinality(WithId(check_config, "content_version")) = given

\* a caller asked for content_version without min_content_version and the
\* bare identifier was submitted
C2_Witness ==
    /\ ReadinessReturned
    /\ InCheckList("content_version")
    /\ kwargs.min_content_version = PyNone
    /\ In(Bare("content_version"), check_config)

\* C3: with an empty or omitted check list and no per-check parameter, the
\* submitted list is exactly panorama, ntp_sync, candidate_config,
\* active_support, free_disk_space when HA is not enabled, and the same with
\* ha between active_support and free_disk_space when it is.
C3_DefaultDirectiveList ==
    (/\ pc = "done"
     /\ rrc_called
     /\ ~Truthy(check_list)
     /\ \A p \in ParamNames : ~IsSupplied(kwargs[p])) =>
        /\ error = "none"
        /\ evaluator_called
        /\ check_config =
             IF ha_enabled = "yes"
             THEN <<Bare("panorama"), Bare("ntp_sync"), Bare("candidate_config"),
                    Bare("active_support"), Bare("ha"), Bare("free_disk_space")>>
             ELSE <<Bare("panorama"), Bare("ntp_sync"), Bare("candidate_config"),
                    Bare("active_support"), Bare("free_disk_space")>>

\* the command ran with no check list and no parameter on an HA firewall
C3_Witness ==
    /\ pc = "done"
    /\ op = "command_run_readiness_checks"
    /\ cmd_check_list = <<>>
    /\ cmd_args = NoArgs
    /\ ha_enabled = "yes"
    /\ Len(check_config) = 6
    /\ check_config[5] = Bare("ha")

\* the user-facing identifiers; free_disk_space is injected by the
\* function and is not one of them
UserFacingNames == CheckNames \ {"free_disk_space"}

\* C4: for a duplicate-free check list of user-facing identifiers and any
\* parameters, the list the command submits holds no two directives with
\* the same check identifier.
C4_NoDuplicateIdentifiers ==
    (/\ op = "command_run_readiness_checks"
     /\ ReadinessReturned
     /\ NoDuplicates(cmd_check_list)
     /\ \A i \in 1..Len(cmd_check_list) : cmd_check_list[i] \in UserFacingNames) =>
        \A i, j \in 1..Len(check_config) :
            check_config[i].id = check_config[j].id => i = j

\* the fixed order of the identifiers compare_snapshots knows
CanonicalOrder ==
    <<"nics", "routes", "license", "arp_table", "content_version",
      "session_stats", "ip_sec_tunnels", "bgp_peers">>

\* the list compare_snapshots works on: the caller's, or the seven defaults
RequestedSnapshots ==
    IF snapshot_list.t = "list" /\ snapshot_list.l # <<>>
    THEN {snapshot_list.l[i] : i \in 1..Len(snapshot_list.l)}
    ELSE {"nics", "routes", "license", "arp_table", "content_version",
          "session_stats", "ip_sec_tunnels"}

\* C5: compare_snapshots emits exactly one directive for each identifier of
\* the fixed set that is in the (possibly defaulted) list, in the canonical
\* order whatever the caller's order or repetitions, and nothing for any
\* other identifier; an empty list gives the seven defaults.
C5_CanonicalOrderOneEach ==
    (pc = "done" /\ compare_called) =>
        LET Requested(id) == id \in RequestedSnapshots
            expected == SelectSeq(CanonicalOrder, Requested)
        IN  /\ Len(snapshot_comparisons) = Len(expected)
            /\ \A i \in 1..Len(expected) : snapshot_comparisons[i].id = expected[i]
            /\ ~Truthy(snapshot_list) => Len(snapshot_comparisons) = 7

\* the caller named bgp_peers before nics, with an unknown identifier or a
\* repetition, and got nics first
C5_Witness ==
    /\ pc = "done"
    /\ compare_called
    /\ snapshot_list.t = "list"
    /\ Len(snapshot_list.l) >= 2
    /\ snapshot_list.l[1] = "bgp_peers"
    /\ snapshot_list.l[2] = "nics"
    /\ Len(snapshot_comparisons) = 2
    /\ snapshot_comparisons[1].id = "nics"
    /\ snapshot_comparisons[2].id = "bgp_peers"

\* C6: with session_stats in the (possibly defaulted) list, the session_stats
\* directive has num-max = num-tcp: both the threshold when it is a positive
\* integer, both 10 when it is absent, zero, negative or not an integer; no
\* threshold makes the function compare_snapshots fail (the command handler
\* rejects a non-numeric argument before it calls the function).
C6_SessionStatsThresholds ==
    (pc = "done" /\ compare_called /\ "session_stats" \in RequestedSnapshots) =>
        /\ error = "none"
        /\ Cardinality(WithId(snapshot_comparisons, "session_stats")) = 1
        /\ \A i \in WithId(snapshot_comparisons, "session_stats") :
              LET th == snapshot_comparisons[i].opts.thresholds
                  T == IF session_stats_threshold \in {PyInt(1), PyInt(25)}
                       THEN session_stats_threshold.n
                       ELSE 10
              IN  /\ Len(th) = 2
                  /\ th[1]["num-max"] = th[2]["num-tcp"]
                  /\ th[1]["num-max"] = T

\* session_stats was compared with threshold 25
C6_Witness ==
    /\ pc = "done"
    /\ compare_called
    /\ "session_stats" \in RequestedSnapshots
    /\ session_stats_threshold = PyInt(25)
    /\ \E i \in 1..Len(snapshot_comparisons) :
          /\ snapshot_comparisons[i].id = "session_stats"
          /\ snapshot_comparisons[i].opts.thresholds[2]["num-tcp"] = 25

\* the one ARP argument of ArpValues that is a valid IPv4 address
ValidArpEntry == PyStr(<<"1","0",".","0",".","0",".","6">>)

\* the clock-difference arguments arg_to_number accepts
NumericClockDiffArgs == ClockDiffArgs \ {PyStr(<<"a","b","c">>)}

\* C7: when arp_entry_exists is supplied and is not a valid IPv4 address, the
\* command ends in a ValueError before any directive is built and without
\* calling run_readiness_checks or the evaluator, whatever the check list;
\* a valid address never causes this error.
C7_ArpEntryValidatedFirst ==
    (pc = "done" /\ op = "command_run_readiness_checks") =>
        /\ (IsSupplied(cmd_args.arp_entry_exists)
              /\ cmd_args.arp_entry_exists # ValidArpEntry)
             => /\ error = "ValueError"
                /\ ~rrc_called
                /\ ~evaluator_called
                /\ check_config = <<>>
        /\ (cmd_args.arp_entry_exists = ValidArpEntry
              /\ cmd_args.dp_mp_clock_diff \in NumericClockDiffArgs)
             => rrc_called

\* an invalid address was given although the check list does not name arp
C7_Witness ==
    /\ pc = "done"
    /\ op = "command_run_readiness_checks"
    /\ cmd_args.arp_entry_exists = PyStr(<<"9","9","9",".","1",".","1",".","1">>)
    /\ ~In("arp", cmd_check_list)
    /\ ~In("arp_entry_exists", cmd_check_list)
    /\ error = "ValueError"

\* the session strings of SessionValues with other than three fields
MalformedSessions ==
    {PyStr(<<"1","0",".","1","0",".","1","0",".","1","0","/","8",".","8",".","8",".","8">>),
     PyStr(<<"1","/","2","/","3","/","4">>)}

\* what the three-field session strings of SessionValues parse to
ExpectedSession(v) ==
    IF v = PyStr(<<"/","/">>)
    THEN [source |-> <<>>, destination |-> <<>>, dest_port |-> <<>>]
    ELSE [source |-> <<"1","0",".","1","0",".","1","0",".","1","0">>,
          destination |-> <<"8",".","8",".","8",".","8">>,
          dest_port |-> <<"4","4","3">>]

\* C8 (as stated): whenever check_session_exists is supplied and has not
\* exactly three slash-delimited fields, run_readiness_checks fails with a
\* ValueError before any directive list is returned or submitted.
C8_MalformedSessionAlwaysFails ==
    (pc = "done" /\ rrc_called /\ kwargs.check_session_exists \in MalformedSessions) =>
        /\ error = "ValueError"
        /\ ~evaluator_called

\* C8 (amended): run_readiness_checks fails with a ValueError, before any
\* directive list is returned or submitted, exactly when session_exist is in
\* the check list and check_session_exists is supplied with other than three
\* slash-delimited fields; when session_exist is not in the list the
\* parameter is not parsed and nothing fails.  A string a/b/c never fails,
\* and with session_exist in the list it is submitted as
\* {session_exist: {source: a, destination: b, dest_port: c}}.
C8_MalformedSessionFailsWhenChecked ==
    (pc = "done" /\ rrc_called) =>
        /\ error = "ValueError" <=>
              (InCheckList("session_exist")
               /\ kwargs.check_session_exists \in MalformedSessions)
        /\ error = "ValueError" => (~evaluator_called /\ check_config = <<>>)
        /\ (/\ InCheckList("session_exist")
            /\ IsSupplied(kwargs.check_session_exists)
            /\ kwargs.check_session_exists \notin MalformedSessions)
             => In(Param("session_exist", ExpectedSession(kwargs.check_session_exists)),
                   check_config)

\* session_exist was asked for with a two-field session string and the call
\* failed before anything was submitted
C8_Witness ==
    /\ pc = "done"
    /\ rrc_called
    /\ InCheckList("session_exist")
    /\ kwargs.check_session_exists \in MalformedSessions
    /\ Len(Split(kwargs.check_session_exists.s, "/")) = 2
    /\ error = "ValueError"
    /\ ~evaluator_called

\* C9: whenever dp_mp_clock_diff is a non-negative integer, the submitted
\* list holds {planes_clock_sync: {diff_threshold: dp_mp_clock_diff}},
\* whatever the check list.
C9_ClockDiffEnablesPlanesClockSync ==
    (/\ ReadinessReturned
     /\ kwargs.dp_mp_clock_diff \in {PyInt(0), PyInt(5)}) =>
        In(Param("planes_clock_sync", [diff_threshold |-> kwargs.dp_mp_clock_diff]),
           check_config)

\* the parameter of each parameter-only check, and the directive it becomes
CheckParameter(x) ==
    CASE x = "planes_clock_sync"    -> kwargs.dp_mp_clock_diff
      [] x = "ip_sec_tunnel_status" -> kwargs.ipsec_tunnel_status
      [] x = "session_exist"        -> kwargs.check_session_exists
      [] x = "arp_entry_exists"     -> kwargs.arp_entry_exists

CheckParameterGiven(x) ==
    IF x = "planes_clock_sync"
    THEN kwargs.dp_mp_clock_diff \in {PyInt(0), PyInt(5)}
    ELSE IsSupplied(CheckParameter(x))

CheckDirective(x) ==
    CASE x = "planes_clock_sync" ->
            Param("planes_clock_sync", [diff_threshold |-> kwargs.dp_mp_clock_diff])
      [] x = "ip_sec_tunnel_status" ->
            Param("ip_sec_tunnel_status", [tunnel_name |-> kwargs.ipsec_tunnel_status])
      [] x = "session_exist" ->
            Param("session_exist", ExpectedSession(kwargs.check_session_exists))
      [] x = "arp_entry_exists" ->
            Param("arp_entry_exist", [ip |-> kwargs.arp_entry_exists])

\* C10: for each of planes_clock_sync, ip_sec_tunnel_status, session_exist
\* and arp_entry_exists that is in the check list run_readiness_checks is
\* given, the output never holds the bare identifier, and holds the
\* parameterized directive iff the parameter was supplied (else the check is
\* dropped).  Stated of the calls the command makes for a duplicate-free
\* list of the caller.
C10_ParameterOnlyChecks ==
    (/\ ReadinessReturned
     /\ op = "command_run_readiness_checks"
     /\ NoDuplicates(cmd_check_list)) =>
        \A x \in {"planes_clock_sync", "ip_sec_tunnel_status",
                  "session_exist", "arp_entry_exists"} :
            InCheckList(x) =>
                /\ ~In(Bare(x), check_config)
                /\ IF CheckParameterGiven(x)
                   THEN In(CheckDirective(x), check_config)
                   ELSE WithId(check_config, CheckDirective(x).id) = {}

====
